---- MODULE Spec2Model ----
(***************************************************************************)
(* A model of gantt.py: the calendar axis (generate_date_series,           *)
(* is_workday), the column lookup (where) and the chart layout             *)
(* (gantt_to_excel), with the worksheet reduced to the log of its write    *)
(* calls.                                                                  *)
(*                                                                         *)
(* Dates are whole days counted from 2021-01-06, the first date of the     *)
(* module docstring (a Wednesday).  Strings are sequences of character     *)
(* codes, so that str.lower() and the ordering of strings are computed.    *)
(***************************************************************************)
EXTENDS Integers, Sequences, FiniteSets, TLC

VARIABLES
    pc,             \* position of the running call
    error,          \* "none", or the message of the AssertionError raised
    data,           \* gantt_to_excel: the task table, a sequence of rows
    columns,        \* gantt_to_excel: data.columns
    only_workdays,  \* gantt_to_excel: the only_workdays flag
    holidays,       \* the holidays argument (a set of dates)
    start_date,     \* generate_date_series: start_date
    end_date,       \* generate_date_series: end_date
    weekend,        \* generate_date_series: weekend (a set of strings)
    date,           \* where: date
    date_range,     \* where: date_range; gantt_to_excel: the axis
    result,         \* the value returned by generate_date_series or where
    row_nums,       \* gantt_to_excel: description -> row
    workbook,       \* "none", "open" or "closed"
    writes,         \* the worksheet.write calls made so far, in order
    placements      \* per task handled: its row, start_index, end_index

vars == <<pc, error, data, columns, only_workdays, holidays, start_date,
          end_date, weekend, date, date_range, result, row_nums, workbook,
          writes, placements>>

----------------------------------------------------------------------------
(* Bounds of the input spaces.                                             *)

MaxDay == 6          \* Spec: task dates range over 0..MaxDay
MaxTasks == 2        \* Spec: rows of the task table
RowMaxDay == 1       \* SpecRows: task dates range over 0..RowMaxDay
RowMaxTasks == 3     \* SpecRows: rows of the task table
SchemaMaxDay == 1    \* SpecSchema: task dates range over 0..SchemaMaxDay
SchemaMaxTasks == 2  \* SpecSchema: rows of the task table
SeriesMaxDay == 6    \* SpecSeries: start and end range over 0..SeriesMaxDay
MaxHoliday == 2      \* SpecSeries: holidays are drawn from 0..MaxHoliday
WhereMaxDay == 2     \* SpecWhere: dates range over 0..WhereMaxDay
MaxAxisLen == 4      \* SpecWhere: length of date_range

----------------------------------------------------------------------------
(* Strings.                                                                *)

monday    == <<109, 111, 110, 100, 97, 121>>
tuesday   == <<116, 117, 101, 115, 100, 97, 121>>
wednesday == <<119, 101, 100, 110, 101, 115, 100, 97, 121>>
thursday  == <<116, 104, 117, 114, 115, 100, 97, 121>>
friday    == <<102, 114, 105, 100, 97, 121>>
saturday  == <<115, 97, 116, 117, 114, 100, 97, 121>>
sunday    == <<115, 117, 110, 100, 97, 121>>

DAYS == <<monday, tuesday, wednesday, thursday, friday, saturday, sunday>>

\* Spellings offered as weekend names: "Saturday", "SUNDAY", "Wednesday",
\* and two that are no weekday: "funday", "sun".
Saturday_cap  == <<83, 97, 116, 117, 114, 100, 97, 121>>
SUNDAY_upper  == <<83, 85, 78, 68, 65, 89>>
Wednesday_cap == <<87, 101, 100, 110, 101, 115, 100, 97, 121>>
funday        == <<102, 117, 110, 100, 97, 121>>
sun           == <<115, 117, 110>>

\* str.lower() on ASCII text: 'A'..'Z' (65..90) move to 'a'..'z'.
lower(s) == [k \in 1..Len(s) |-> IF s[k] \in 65..90 THEN s[k] + 32 ELSE s[k]]

\* a < b for Python strings: code points compared left to right, a proper
\* prefix before its extensions.
RECURSIVE StrLess(_, _)
StrLess(a, b) ==
    IF b = <<>> THEN FALSE
    ELSE IF a = <<>> THEN TRUE
    ELSE IF Head(a) # Head(b) THEN Head(a) < Head(b)
    ELSE StrLess(Tail(a), Tail(b))

----------------------------------------------------------------------------
(* The calendar.                                                           *)

EpochWeekday == 2    \* date 0 is 2021-01-06, a Wednesday: weekday() = 2

\* datetime.weekday(): 0 is Monday, 6 is Sunday.
weekday(d) == (d + EpochWeekday) % 7

\* mapping = dict(enumerate(DAYS))
mapping == [k \in 0..6 |-> DAYS[k + 1]]

is_workday(d, wkend, hols) ==
    (d \notin hols) /\ (mapping[weekday(d)] \notin wkend)

\* pd.date_range with the end date left out.
pd_date_range_open(start, end) ==
    IF end <= start THEN <<>> ELSE [k \in 1..(end - start) |-> start + k - 1]

\* pd.date_range(start, end): every day from start to end, both included;
\* empty when end < start.
pd_date_range(start, end) ==
    IF end < start THEN <<>> ELSE [k \in 1..(end - start + 1) |-> start + k - 1]

\* The weekend names taken as they are spelled.
lowered_never(wkend) == wkend

\* {elem.lower() for elem in weekend}
lowered(wkend) == {lower(elem) : elem \in wkend}

\* weekend.issubset(DAYS)
issubset_DAYS(wkend) == \A w \in wkend : \E k \in 1..Len(DAYS) : DAYS[k] = w

RECURSIVE workdays_of(_, _, _)
workdays_of(days, wkend, hols) ==
    IF days = <<>> THEN <<>>
    ELSE IF is_workday(Head(days), wkend, hols)
         THEN <<Head(days)>> \o workdays_of(Tail(days), wkend, hols)
         ELSE workdays_of(Tail(days), wkend, hols)

\* generate_date_series: raised is TRUE when the assertion on weekend fails,
\* and then there is no value.
generate_date_series(start, end, wkend, hols) ==
    LET w == lowered(wkend) IN
    IF ~issubset_DAYS(w)
    THEN [raised |-> TRUE, value |-> <<>>]
    ELSE [raised |-> FALSE,
          value |-> workdays_of(pd_date_range(start, end), w, hols)]

----------------------------------------------------------------------------
(* where.                                                                  *)

\* date_range == date, elementwise
eq_mask(axis, d) == [k \in 1..Len(axis) |-> axis[k] = d]

\* The array left in its order.
flip_never(s) == s

\* np.flip
flip(s) == [k \in 1..Len(s) |-> s[Len(s) + 1 - k]]

\* The sum of the first k elements of a boolean array: True counts 1, False
\* counts 0.
RECURSIVE sum_first(_, _)
sum_first(s, k) ==
    IF k = 0 THEN 0 ELSE sum_first(s, k - 1) + (IF s[k] THEN 1 ELSE 0)

\* np.cumsum of a boolean array
cumsum(s) == [k \in 1..Len(s) |-> sum_first(s, k)]

\* ndarray.sum()
RECURSIVE sum(_)
sum(s) == IF s = <<>> THEN 0 ELSE Head(s) + sum(Tail(s))

\* The count of matches, without the step down to a 0-based position.
where_count(d, axis) == sum(cumsum(flip(eq_mask(axis, d))))

where(d, axis) == sum(cumsum(flip(eq_mask(axis, d)))) - 1

----------------------------------------------------------------------------
(* Values the variables hold while a call does not use them.               *)

Idle ==
    /\ error = "none"
    /\ data = <<>>
    /\ columns = {}
    /\ only_workdays = TRUE
    /\ row_nums = <<>>
    /\ workbook = "none"
    /\ writes = <<>>
    /\ placements = <<>>

----------------------------------------------------------------------------
(* SpecSeries: one call of generate_date_series.                           *)

WeekendNames == {saturday, Saturday_cap, SUNDAY_upper, Wednesday_cap, funday, sun}

InitSeries ==
    /\ Idle
    /\ pc = "generate_date_series"
    /\ start_date \in 0..SeriesMaxDay
    /\ end_date \in 0..SeriesMaxDay
    /\ weekend \in SUBSET WeekendNames
    /\ holidays \in SUBSET (0..MaxHoliday)
    /\ date = 0
    /\ date_range = <<>>
    /\ result = <<>>

CallGenerateDateSeries ==
    /\ pc = "generate_date_series"
    /\ LET r == generate_date_series(start_date, end_date, weekend, holidays) IN
       /\ error' = IF r.raised THEN "Weekend is not specified correctly." ELSE "none"
       /\ result' = r.value
       /\ pc' = IF r.raised THEN "raised" ELSE "returned"
    /\ UNCHANGED <<data, columns, only_workdays, holidays, start_date, end_date,
                   weekend, date, date_range, row_nums, workbook, writes,
                   placements>>

SpecSeries == InitSeries /\ [][CallGenerateDateSeries]_vars

----------------------------------------------------------------------------
(* SpecWhere: one call of where, on any sequence of dates (repeats         *)
(* included, as where itself does not require an axis).                    *)

RECURSIVE SeqsUpTo(_, _)
SeqsUpTo(S, n) ==
    IF n = 0 THEN {<<>>}
    ELSE LET shorter == SeqsUpTo(S, n - 1) IN
         shorter \cup {Append(s, x) : s \in shorter, x \in S}

InitWhere ==
    /\ Idle
    /\ pc = "where"
    /\ date \in 0..WhereMaxDay
    /\ date_range \in SeqsUpTo(0..WhereMaxDay, MaxAxisLen)
    /\ holidays = {}
    /\ start_date = 0
    /\ end_date = 0
    /\ weekend = {}
    /\ result = 0

CallWhere ==
    /\ pc = "where"
    /\ result' = where(date, date_range)
    /\ pc' = "returned"
    /\ UNCHANGED <<error, data, columns, only_workdays, holidays, start_date,
                   end_date, weekend, date, date_range, row_nums, workbook,
                   writes, placements>>

SpecWhere == InitWhere /\ [][CallWhere]_vars

----------------------------------------------------------------------------
(* gantt_to_excel.                                                         *)
(*                                                                         *)
(* A row of the table is [description, start, end, duration, isnull];      *)
(* isnull is the set of columns whose cell of that row is null.  Null      *)
(* cells are modelled where the layout does not read them: in the          *)
(* duration column, and in a table all of whose cells are null.            *)

Required == {"start_col", "end_col", "duration_col", "description"}

\* data.notnull().any(None): any() with axis None (pandas 1.x, where the axis
\* may be given by position) reduces over both axes: True when at least one
\* cell of the table is not null, False for a table without cells.
notnull_any(tbl, cols) ==
    \E i \in 1..Len(tbl) : \E c \in cols : c \notin tbl[i].isnull

SetMin(S) == CHOOSE x \in S : \A y \in S : x <= y
SetMax(S) == CHOOSE x \in S : \A y \in S : y <= x

\* The distinct descriptions in descending order.
RECURSIVE groupby_keys_desc(_)
groupby_keys_desc(S) ==
    IF S = {} THEN <<>>
    ELSE LET first == CHOOSE x \in S : \A y \in S \ {x} : StrLess(y, x)
         IN  <<first>> \o groupby_keys_desc(S \ {first})

\* data.groupby(description): the distinct descriptions, in ascending order.
RECURSIVE groupby_keys(_)
groupby_keys(S) ==
    IF S = {} THEN <<>>
    ELSE LET first == CHOOSE x \in S : \A y \in S \ {x} : StrLess(x, y)
         IN  <<first>> \o groupby_keys(S \ {first})

\* The latest start date of a group.
group_max(tbl, desc) ==
    SetMax({tbl[i].start : i \in {j \in 1..Len(tbl) : tbl[j].description = desc}})

\* .apply(lambda x: x[start_col].min()) for one group
group_min(tbl, desc) ==
    SetMin({tbl[i].start : i \in {j \in 1..Len(tbl) : tbl[j].description = desc}})

\* One step of an insertion sort: x goes behind every element whose value
\* is not larger.
RECURSIVE insert_sorted(_, _, _)
insert_sorted(sorted, x, val) ==
    IF sorted = <<>> THEN <<x>>
    ELSE IF val[x] < val[Head(sorted)] THEN <<x>> \o sorted
    ELSE <<Head(sorted)>> \o insert_sorted(Tail(sorted), x, val)

\* Series.sort_values() with the default kind: numpy's quicksort sorts a
\* partition of at most 16 elements by insertion, which leaves elements of
\* equal value in the order they came in.
RECURSIVE sort_values(_, _)
sort_values(keys, val) ==
    IF keys = <<>> THEN <<>>
    ELSE insert_sorted(sort_values(SubSeq(keys, 1, Len(keys) - 1), val),
                       keys[Len(keys)], val)

\* row_nums = {desc: row for row, desc in enumerate(...)}
row_nums_of(tbl) ==
    LET descs == {tbl[i].description : i \in 1..Len(tbl)}
        agg   == [d \in descs |-> group_min(tbl, d)]
        order == sort_values(groupby_keys(descs), agg)
    IN  [d \in descs |-> (CHOOSE k \in 1..Len(order) : order[k] = d) - 1]

min_date(tbl) == SetMin({tbl[i].start : i \in 1..Len(tbl)})
max_date(tbl) == SetMax({tbl[i].end : i \in 1..Len(tbl)})

\* The axis with the holidays left out in both modes.
axis_of_holidays(tbl, workdays_only, hols) ==
    IF workdays_only
    THEN generate_date_series(min_date(tbl), max_date(tbl), {saturday, sunday}, hols).value
    ELSE generate_date_series(min_date(tbl), max_date(tbl), {}, hols).value

\* The axis of the chart.
axis_of(tbl, workdays_only, hols) ==
    IF workdays_only
    THEN generate_date_series(min_date(tbl), max_date(tbl), {saturday, sunday}, hols).value
    ELSE generate_date_series(min_date(tbl), max_date(tbl), {}, {}).value

\* range(a, b)
range(a, b) == IF b <= a THEN <<>> ELSE [k \in 1..(b - a) |-> a + k - 1]

\* worksheet.write(row, col, value, format) as an entry of the call log; the
\* value is a string, or the one-element sequence of a date.
write(row, col, kind, value) == [row |-> row, col |-> col, kind |-> kind, value |-> value]

header_writes(axis) == [k \in 1..Len(axis) |-> write(0, (k - 1) + 1, "date", <<axis[k]>>)]

start_index_of(task, axis) == where(task.start, axis) + 1
\* An end index that leaves the end date's column out.
end_index_open(task, axis) == where(task.end, axis) + 1

end_index_of(task, axis) == where(task.end, axis) + 2

span_writes(row, start_index, end_index) ==
    LET cols == range(start_index, end_index) IN
    [k \in 1..Len(cols) |-> write(row + 1, cols[k], "symbol", <<>>)]

Validate ==
    /\ pc = "validate"
    /\ IF ~(Required \subseteq columns)
       THEN /\ error' = "Some of the columns are not present in the data"
            /\ pc' = "raised"
       ELSE IF ~notnull_any(data, columns)
       THEN /\ error' = "Nulls are not permitted in the data."
            /\ pc' = "raised"
       ELSE /\ error' = error
            /\ pc' = "layout"
    /\ UNCHANGED <<data, columns, only_workdays, holidays, start_date, end_date,
                   weekend, date, date_range, result, row_nums, workbook,
                   writes, placements>>

Layout ==
    /\ pc = "layout"
    /\ row_nums' = row_nums_of(data)
    /\ workbook' = "open"
    /\ date_range' = axis_of(data, only_workdays, holidays)
    /\ pc' = "header"
    /\ UNCHANGED <<error, data, columns, only_workdays, holidays, start_date,
                   end_date, weekend, date, result, writes, placements>>

Header ==
    /\ pc = "header"
    /\ writes' = writes \o header_writes(date_range)
    /\ pc' = "tasks"
    /\ UNCHANGED <<error, data, columns, only_workdays, holidays, start_date,
                   end_date, weekend, date, date_range, result, row_nums,
                   workbook, placements>>

\* One turn of the loop over data[description].
Task ==
    /\ pc = "tasks"
    /\ Len(placements) < Len(data)
    /\ LET task        == data[Len(placements) + 1]
           row         == row_nums[task.description]
           start_index == start_index_of(task, date_range)
           end_index   == end_index_of(task, date_range)
       IN  /\ writes' = writes \o <<write(row + 1, 0, "label", task.description)>>
                               \o span_writes(row, start_index, end_index)
           /\ placements' = Append(placements,
                                   [row |-> row, start_index |-> start_index,
                                    end_index |-> end_index,
                                    label |-> task.description])
    /\ UNCHANGED <<pc, error, data, columns, only_workdays, holidays, start_date,
                   end_date, weekend, date, date_range, result, row_nums,
                   workbook>>

Close ==
    /\ pc = "tasks"
    /\ Len(placements) = Len(data)
    /\ workbook' = "closed"
    /\ pc' = "returned"
    /\ UNCHANGED <<error, data, columns, only_workdays, holidays, start_date,
                   end_date, weekend, date, date_range, result, row_nums,
                   writes, placements>>

Next == Validate \/ Layout \/ Header \/ Task \/ Close

\* What a call of gantt_to_excel starts from, whatever its arguments.
GanttEntry ==
    /\ pc = "validate"
    /\ error = "none"
    /\ start_date = 0
    /\ end_date = 0
    /\ weekend = {}
    /\ date = 0
    /\ date_range = <<>>
    /\ result = <<>>
    /\ row_nums = <<>>
    /\ workbook = "none"
    /\ writes = <<>>
    /\ placements = <<>>

Intervals(maxday) == {<<s, e>> \in (0..maxday) \X (0..maxday) : s <= e}

row_of(desc, iv, nulls) ==
    [description |-> desc, start |-> iv[1], end |-> iv[2],
     duration |-> iv[2] - iv[1] + 1, isnull |-> nulls]

\* "B", "A", "AB", "BA", "C"
DescByRow == << <<66>>, <<65>>, <<65, 66>>, <<66, 65>>, <<67>> >>
\* "B", "A", "AB"
DescPool == { <<66>>, <<65>>, <<65, 66>> }

\* 2021-01-08, a Friday
HolidayPool == {2}

(* Spec: tables of tasks named "B", "A", "AB", ... row by row, each with   *)
(* start <= end, over a week that holds a weekend.                         *)
Init ==
    /\ GanttEntry
    /\ columns = Required
    /\ only_workdays \in BOOLEAN
    /\ holidays \in SUBSET HolidayPool
    /\ \E n \in 0..MaxTasks :
         \E f \in [1..n -> Intervals(MaxDay)] :
            data = [i \in 1..n |-> row_of(DescByRow[i], f[i], {})]

Spec == Init /\ [][Next]_vars


(* SpecRows: tables whose descriptions repeat and come in any order.       *)
InitRows ==
    /\ GanttEntry
    /\ columns = Required
    /\ only_workdays = TRUE
    /\ holidays = {}
    /\ data \in SeqsUpTo({row_of(d, iv, {}) : d \in DescPool, iv \in Intervals(RowMaxDay)},
                         RowMaxTasks)

SpecRows == InitRows /\ [][Next]_vars

(* SpecSchema: tables with a column missing, with null cells, or both.     *)
InitSchema ==
    /\ GanttEntry
    /\ columns \in {Required} \cup {Required \ {c} : c \in Required}
    /\ only_workdays \in BOOLEAN
    /\ holidays = {}
    /\ \E n \in 0..SchemaMaxTasks :
         \/ \E f \in [1..n -> Intervals(SchemaMaxDay) \X {{}, {"duration_col"}}] :
              data = [i \in 1..n |-> row_of(DescByRow[i], f[i][1], f[i][2])]
         \/ data = [i \in 1..n |-> row_of(<<>>, <<0, 0>>, Required)]

SpecSchema == InitSchema /\ [][Next]_vars

----------------------------------------------------------------------------
(* Properties of generate_date_series (SpecSeries).                        *)

\* s spells the lower-case word w, letter case ignored.
SameIgnoringCase(s, w) ==
    /\ Len(s) = Len(w)
    /\ \A k \in 1..Len(w) : s[k] = w[k] \/ s[k] = w[k] - 32

WeekdayName(d) == DAYS[((d + EpochWeekday) % 7) + 1]

Excluded(d) ==
    \/ d \in holidays
    \/ \E w \in weekend : SameIgnoringCase(w, WeekdayName(d))

Canonical(w) == \E k \in 1..7 : SameIgnoringCase(w, DAYS[k])

\* C1: generate_date_series returns exactly the dates d with
\* start_date <= d <= end_date that are neither on a weekday named in weekend
\* nor in holidays, in strictly ascending order without repeats (so the
\* empty sequence when every date of the range is excluded).
C1_SeriesIsFilteredRange ==
    pc = "returned" =>
        /\ {result[k] : k \in 1..Len(result)}
             = {d \in start_date..end_date : ~Excluded(d)}
        /\ \A k \in 1..(Len(result) - 1) : result[k] < result[k + 1]

\* A call whose range loses one date to a holiday and another to the
\* weekend, and keeps some.
C1_Witness ==
    /\ pc = "returned"
    /\ result # <<>>
    /\ \E d1, d2 \in start_date..end_date :
          /\ d1 \in holidays
          /\ d2 \notin holidays
          /\ \E w \in weekend : SameIgnoringCase(w, WeekdayName(d2))

\* C6: generate_date_series fails, returning no axis, exactly when weekend
\* holds a name that is none of monday..sunday in any letter case; a set of
\* weekday names in any letter case, the empty set included, raises nothing.
C6_WeekendValidated ==
    pc \in {"raised", "returned"} =>
        /\ (pc = "raised") <=> (\E w \in weekend : ~Canonical(w))
        /\ pc = "raised" => (result = <<>> /\ error # "none")
        /\ pc = "returned" => error = "none"

\* A call with weekday names in capitals only, which is accepted and drops
\* the Saturday of the range.
C6_Witness ==
    /\ pc = "returned"
    /\ weekend = {Saturday_cap, SUNDAY_upper}
    /\ start_date = 0
    /\ end_date = 6
    /\ Len(result) = 5

----------------------------------------------------------------------------
(* Properties of where (SpecWhere).                                        *)

Positions(d, axis) == {k \in 1..Len(axis) : axis[k] = d}

\* C4: where returns the 0-based position of a date that occurs exactly
\* once in date_range, and -1 for a date that does not occur (also in the
\* empty date_range).
C4_WhereLocates ==
    pc = "returned" =>
        /\ Cardinality(Positions(date, date_range)) = 1
              => (result + 1) \in Positions(date, date_range)
        /\ Positions(date, date_range) = {} => result = -1

\* The date is found once, neither first nor last.
C4_Witness ==
    /\ pc = "returned"
    /\ Cardinality(Positions(date, date_range)) = 1
    /\ Len(date_range) = 4
    /\ result = 1

----------------------------------------------------------------------------
(* Reading the log of worksheet.write calls.                               *)

\* The index in writes of the label written by the i-th task handled.
LabelIdx(i) ==
    CHOOSE k \in 1..Len(writes) :
        /\ writes[k].kind = "label"
        /\ Cardinality({j \in 1..k : writes[j].kind = "label"}) = i

NumLabels == Cardinality({k \in 1..Len(writes) : writes[k].kind = "label"})

\* The indices in writes of the cells shaded by the i-th task handled: the
\* calls between its label and the next one.
ShadeIdx(i) ==
    (LabelIdx(i) + 1)..(IF i < NumLabels THEN LabelIdx(i + 1) - 1 ELSE Len(writes))

ShadedCols(i) == {writes[k].col : k \in ShadeIdx(i)}

InAxis(d) == Positions(d, date_range) # {}

\* The 0-based position of a date of the axis.
Pos0(d) == (CHOOSE k \in Positions(d, date_range) : TRUE) - 1

\* The dates written into the header at column c.
HeaderDates(c) ==
    {writes[k].value[1] : k \in {j \in 1..Len(writes) :
                                    writes[j].kind = "date" /\ writes[j].col = c}}

LaidOut == pc \in {"header", "tasks", "returned"}

----------------------------------------------------------------------------
(* Properties of gantt_to_excel: columns (Spec).                           *)

\* C2: a task whose start and end dates are in the axis at positions s and
\* e shades, in its own row, exactly the columns s+1 .. e+1, each once;
\* these are the columns headed by the axis dates within [start, end], so
\* that a task from 2021-01-06 to 2021-01-12 under the default weekend and
\* no holidays shades 5 columns.
C2_SpanInclusive ==
    \A i \in 1..Len(placements) :
        LET t == data[i] IN
        (InAxis(t.start) /\ InAxis(t.end)) =>
            /\ Pos0(t.start) <= Pos0(t.end)
            /\ ShadedCols(i) = (Pos0(t.start) + 1)..(Pos0(t.end) + 1)
            /\ Cardinality(ShadeIdx(i)) = Pos0(t.end) - Pos0(t.start) + 1
            /\ \A k \in ShadeIdx(i) :
                  /\ writes[k].kind = "symbol"
                  /\ writes[k].row = row_nums[t.description] + 1
            /\ UNION {HeaderDates(c) : c \in ShadedCols(i)}
                 = {d \in t.start..t.end : InAxis(d)}
            /\ (t.start = 0 /\ t.end = 6 /\ only_workdays /\ holidays = {})
                  => Cardinality(ShadeIdx(i)) = 5

\* The run of the docstring's "Research" task, 2021-01-06 to 2021-01-12,
\* behind another task: 5 cells shaded, the weekend skipped.
C2_Witness ==
    /\ pc = "returned"
    /\ only_workdays
    /\ holidays = {}
    /\ Len(data) = 2
    /\ data[2].start = 0
    /\ data[2].end = 6
    /\ Cardinality(ShadeIdx(2)) = 5
    /\ ShadedCols(2) = 1..5

\* C8: every shaded cell is in a row >= 1 and in a column k+1 with
\* 0 <= k < len(axis): none is in column 0, the column of the labels.
C8_ShadingKeepsOffLabels ==
    \A k \in 1..Len(writes) :
        writes[k].kind = "symbol" =>
            /\ writes[k].row >= 1
            /\ writes[k].col \in 1..Len(date_range)

\* The call has a next step to take: the loop over the tasks either is
\* through, or finds the row of the next task's description.
CanStep ==
    \/ pc \in {"validate", "layout", "header"}
    \/ /\ pc = "tasks"
       /\ Len(placements) <= Len(data)
       /\ Len(placements) < Len(data)
             => data[Len(placements) + 1].description \in DOMAIN row_nums

\* C9: a task whose start or end date is not in the axis raises nothing:
\* the lookup gives -1 (so start_index 0, end_index 1), an error can only
\* come from the validation, before the workbook exists, a call that has
\* not returned has a next step, and the returned call has closed the
\* workbook and has written the label of every task.
C9_MissingDateIsSilent ==
    /\ \A i \in 1..Len(placements) :
          /\ ~InAxis(data[i].start) => placements[i].start_index = 0
          /\ ~InAxis(data[i].end) => placements[i].end_index = 1
    /\ pc = "raised" => (workbook = "none" /\ writes = <<>>)
    /\ pc # "raised" => error = "none"
    /\ pc \notin {"raised", "returned"} => CanStep
    /\ pc = "returned" =>
          /\ workbook = "closed"
          /\ NumLabels = Len(data)
          /\ \A i \in 1..Len(data) :
                /\ writes[LabelIdx(i)].value = data[i].description
                /\ writes[LabelIdx(i)].col = 0

\* A finished run in which the first task starts on an excluded day and
\* ends on an excluded day, and a second task is laid out after it.
C9_Witness ==
    /\ pc = "returned"
    /\ Len(data) = 2
    /\ ~InAxis(data[1].start)
    /\ ~InAxis(data[1].end)
    /\ InAxis(data[2].start)
    /\ InAxis(data[2].end)
    /\ date_range # <<>>

\* C10: with only_workdays = False the axis is every day from the first
\* start date to the last end date, whatever holidays is; both end points of
\* every task are in it and the task shades (end - start) + 1 columns in a
\* row.
C10_AllDaysAxis ==
    (~only_workdays /\ LaidOut) =>
        /\ Len(date_range) = max_date(data) - min_date(data) + 1
        /\ \A k \in 1..Len(date_range) : date_range[k] = min_date(data) + k - 1
        /\ \A i \in 1..Len(placements) :
              /\ InAxis(data[i].start)
              /\ InAxis(data[i].end)
              /\ Cardinality(ShadeIdx(i)) = data[i].end - data[i].start + 1
              /\ \E a \in 1..Len(date_range) :
                    ShadedCols(i) = a..(a + data[i].end - data[i].start)

\* A finished run without the workday filter, with a holiday and a weekend
\* inside the span of a task.
C10_Witness ==
    /\ pc = "returned"
    /\ ~only_workdays
    /\ \E i \in 1..Len(data) :
          /\ \E h \in holidays : data[i].start <= h /\ h <= data[i].end
          /\ data[i].start <= 3
          /\ data[i].end >= 4
          /\ Cardinality(ShadeIdx(i)) = data[i].end - data[i].start + 1

----------------------------------------------------------------------------
(* Properties of gantt_to_excel: rows (SpecRows).                          *)

Descriptions == {data[i].description : i \in 1..Len(data)}

\* The earliest start date among the tasks that carry description d.
EarliestStart(d) ==
    CHOOSE s \in {data[i].start : i \in 1..Len(data)} :
        /\ \E i \in 1..Len(data) : data[i].description = d /\ data[i].start = s
        /\ \A i \in 1..Len(data) : data[i].description = d => s <= data[i].start

\* The first row of the table that carries description d.
FirstAppearance(d) ==
    CHOOSE i \in 1..Len(data) :
        /\ data[i].description = d
        /\ \A j \in 1..(i - 1) : data[j].description # d

\* C3: the distinct descriptions are mapped one-to-one onto the rows
\* 0..k-1, a description with an earlier earliest start date above one with
\* a later; every task is given the row of its description, and every task
\* (not every description) writes its own label and gets its own span.
C3_RowsByEarliestStart ==
    LaidOut =>
        /\ DOMAIN row_nums = Descriptions
        /\ {row_nums[d] : d \in Descriptions} = 0..(Cardinality(Descriptions) - 1)
        /\ \A d1, d2 \in Descriptions :
              EarliestStart(d1) < EarliestStart(d2) => row_nums[d1] < row_nums[d2]
        /\ NumLabels = Len(placements)
        /\ \A i \in 1..Len(placements) :
              /\ placements[i].row = row_nums[data[i].description]
              /\ placements[i].label = data[i].description
              /\ writes[LabelIdx(i)].row = row_nums[data[i].description] + 1
              /\ writes[LabelIdx(i)].col = 0
              /\ writes[LabelIdx(i)].value = data[i].description
              /\ \A k \in ShadeIdx(i) :
                    writes[k].row = row_nums[data[i].description] + 1
        /\ pc = "returned" => Len(placements) = Len(data)

\* A finished run over three tasks, the first and the third sharing a
\* description whose earliest start date comes from the third, ahead of the
\* second task's.
C3_Witness ==
    /\ pc = "returned"
    /\ Len(data) = 3
    /\ data[1].description = data[3].description
    /\ data[1].description # data[2].description
    /\ data[3].start < data[1].start
    /\ data[3].start < data[2].start
    /\ placements[1].row = 0
    /\ placements[2].row = 1
    /\ placements[3].row = 0

\* C7 as stated: of two descriptions with the same earliest start date, the
\* one that appears first in the table gets the smaller row.
C7_TiesByInputOrder ==
    LaidOut =>
        \A d1, d2 \in Descriptions :
            (/\ d1 # d2
             /\ EarliestStart(d1) = EarliestStart(d2)
             /\ FirstAppearance(d1) < FirstAppearance(d2))
                => row_nums[d1] < row_nums[d2]

\* C7, amended: of two descriptions with the same earliest start date, the
\* one that is the smaller string gets the smaller row, wherever the two
\* appear in the table.
C7_TiesByDescription ==
    LaidOut =>
        \A d1, d2 \in Descriptions :
            (EarliestStart(d1) = EarliestStart(d2) /\ StrLess(d1, d2))
                => row_nums[d1] < row_nums[d2]

\* Two descriptions tied on the earliest start date, the larger string
\* first in the table, in the lower row all the same.
C7_Witness ==
    /\ LaidOut
    /\ \E d1, d2 \in Descriptions :
          /\ EarliestStart(d1) = EarliestStart(d2)
          /\ StrLess(d1, d2)
          /\ FirstAppearance(d2) < FirstAppearance(d1)
          /\ row_nums[d1] < row_nums[d2]

----------------------------------------------------------------------------
(* Properties of gantt_to_excel: validation (SpecSchema).                  *)

HasNull == \E i \in 1..Len(data) : data[i].isnull \cap Required # {}

\* C5: a table with a null in a required field fails in the validation,
\* before the rows and the axis are computed and before the workbook
\* exists, also when other cells are not null.
C5_NullsRejected ==
    HasNull =>
        /\ pc \in {"validate", "raised"}
        /\ workbook = "none"
        /\ writes = <<>>
        /\ row_nums = <<>>
        /\ date_range = <<>>

====
